---- MODULE Spec2Model ----
(***************************************************************************)
(* Pool Connection Manager (libpoolprotocols/PoolManager.cpp).             *)
(*                                                                         *)
(* Threads: the supervisor loop (workLoop), one control thread calling the *)
(* public API, the pool client's thread (connected / disconnected          *)
(* callbacks), the farm's thread (solution found / miner restart) and the  *)
(* reactor strand running the failover timer.  A thread takes              *)
(* m_activeConnectionMutex and runs the section under it in one step; the  *)
(* release is a step of its own wherever the function goes on after it.    *)
(* Every call made after the mutex is released, and every read of another  *)
(* thread's state (m_running, isPendingState, isConnected), is a step of   *)
(* its own.  Indexes are 0-based as in the code: element i of the vector   *)
(* is m_connections[i + 1].                                                *)
(*                                                                         *)
(* Not part of the state: the fields that only feed log lines and metrics  *)
(* (m_lastConnectedHost, m_lastBoundary, m_lastDifficulty), the farm's     *)
(* work package (suspendMining, setWork) and the hashrate report counter;  *)
(* no control decision of the manager reads them.  std::vector::at on an   *)
(* index out of range throws std::out_of_range, which nothing catches: the *)
(* handler is left at that line and the process takes no further step;     *)
(* the mutex the thrower held is released or still owned by it, as the     *)
(* stack is or is not unwound before std::terminate.                       *)
(* Callers pass indexes of the registry to removeConnection and            *)
(* setActiveConnection, add distinct hosts, and call start() once.         *)
(*                                                                         *)
(* The client keeps a pointer into the vector (setConnection): a push_back *)
(* that reallocates leaves it dangling, one that finds spare capacity does *)
(* not, and the state does not say which.  The timer handler reads         *)
(* m_running before it takes the mutex, so the read is a step of its own;  *)
(* stop() and clearConnections() hold no lock when they ask isConnected(), *)
(* call disconnect() and stop the farm, so each of these is a step too.    *)
(*                                                                         *)
(* Work packages touch m_lastEpoch and m_epochChanges only, which nothing  *)
(* else reads or writes.  Spec has every action; SpecManager leaves the    *)
(* work packages out; SpecLocks has every operation that locks or calls    *)
(* the client; SpecCore has the loop with the calls that write the index   *)
(* or the attempt count; SpecWork and SpecCounters put the work packages   *)
(* next to the loop; SpecExit and SpecRoundRobin serve a configured list   *)
(* under fairness of the loop.                                             *)
(***************************************************************************)
EXTENDS Integers, Sequences, FiniteSets, TLC

\* ---------------------------------------------------------------- bounds
MaxLen == 2          \* longest registry explored
MaxTries == 2        \* maxTries given to the constructor
MaxSwitches == 2     \* m_connectionSwitches is explored up to this value
MaxWork == 3         \* work packages delivered in one run

Hosts == {"A", "B", "exit"}
Epochs == {0, 1}     \* epochs are only compared for equality: two values
NewEndpoint(h) == [host |-> h, unrec |-> FALSE]

VARIABLES
    m_connections,            \* std::vector<URI>
    m_activeConnectionIdx,    \* unsigned, 0-based
    m_connectionAttempt,
    m_connectionSwitches,
    m_running,
    m_maxConnectionAttempts,  \* constructor argument maxTries
    m_failoverTimeout,        \* constructor argument failoverTimeout
    timerArmed,               \* m_failovertimer has a pending async_wait
    clientState,              \* PoolClient: disconnected/connecting/connected/disconnecting
    clientConn,               \* PoolClient::m_conn: 0 = unset, k = &m_connections[k-1],
                              \* Dangling = into storage the vector has freed
    mining,                   \* g_farm->isMining()
    loopPc, apiPc, connPc, farmPc, timerPc,
    stopReturned,             \* history: stop() ran its body and returned
    discarded,                \* history: host the tick in progress erased, or ""
    discTicks,                \* history: ticks that saw the client disconnected
    returning,                \* history: primary host a failover expiry returned to, or ""
    m_lastEpoch,              \* epoch of the most recent work package
    m_epochChanges,           \* std::atomic<unsigned>, far below 2^32 here
    workLog,                  \* history: epochs of the work packages received
    switching,                \* history: host setActiveConnection chose, and whether
                              \* the client has reported a disconnect since
    mutexOwner                \* m_activeConnectionMutex: "none" or the thread holding it

vars == << m_connections, m_activeConnectionIdx, m_connectionAttempt,
           m_connectionSwitches, m_running,
           m_maxConnectionAttempts, m_failoverTimeout, timerArmed, clientState,
           clientConn, mining, loopPc, apiPc, connPc, farmPc, timerPc,
           stopReturned, discarded, discTicks, returning,
           m_lastEpoch, m_epochChanges, workLog, switching,
           mutexOwner >>

registryVars == << m_connections, m_activeConnectionIdx, m_connectionAttempt,
                   m_connectionSwitches >>
configVars == << m_maxConnectionAttempts, m_failoverTimeout >>
workVars == << m_lastEpoch, m_epochChanges, workLog >>

\* ------------------------------------------------------------- helpers
\* an uncaught std::out_of_range left a handler: the process is gone
aborted == loopPc = "aborted" \/ connPc = "aborted"
At(conns, i) == conns[i + 1]                 \* m_connections.at(i), i in range
InRange(conns, i) == i < Len(conns)          \* at(i) does not throw
Erase(conns, i) ==                           \* m_connections.erase(begin() + i)
    SubSeq(conns, 1, i) \o SubSeq(conns, i + 2, Len(conns))
MaxTicks == MaxTries + 2                     \* discTicks saturates here

\* --------------------------------------------- pool client (PoolClient.h)
isConnected == clientState = "connected"
isPendingState == clientState \in {"connecting", "disconnecting"}
\* disconnect(): an established or in-flight session starts closing
ClientDisconnect(st) ==
    IF st \in {"connected", "connecting"} THEN "disconnecting" ELSE st
\* connect(): the client starts an attempt towards its bound endpoint
ClientConnect(st) == "connecting"

\* ------------------------------------------------- registry operations
\* m_conn after a push_back that moved the elements to new storage
Dangling == -1
\* the client's pointer after push_back (line 285): kept when the vector had
\* spare capacity, dangling when it reallocated; the capacity is not part of
\* this state, so both are possible whenever the pointer is set
AfterPushBack(conn) == IF conn = 0 THEN {0} ELSE {conn, Dangling}

\* addConnection: push_back under the mutex
addConnection(conns, idx, e) == [conns |-> Append(conns, e), idx |-> idx]
\* removeConnection: erase, then decrement the active index if it was above
removeConnection(conns, idx, i) ==
    [conns |-> Erase(conns, i), idx |-> IF idx > i THEN idx - 1 ELSE idx]

\* a discard that forgets to reset the attempt count
DiscardKeepsAttempt(r) ==
    LET erased == Erase(r.conns, r.idx)
    IN  [conns |-> erased,
         idx |-> IF r.idx >= Len(erased) THEN 0 ELSE r.idx,
         attempt |-> r.attempt,
         switches |-> r.switches + 1,
         conn |-> 0]

\* workLoop, lines 198-210: discard the active endpoint when unrecoverable
DiscardUnrecoverable(r) ==
    LET erased == Erase(r.conns, r.idx)
    IN  [conns |-> erased,
         idx |-> IF r.idx >= Len(erased) THEN 0 ELSE r.idx,
         attempt |-> 0,
         switches |-> r.switches + 1,
         conn |-> 0]

\* a rotation that always goes back to the first endpoint
RotateToPrimary(r) ==
    [conns |-> r.conns,
     idx |-> 0,
     attempt |-> 0,
     switches |-> r.switches + 1,
     conn |-> r.conn]

\* a rotation that counts the switches of the current round only
RotateCountsPerRound(r) ==
    [conns |-> r.conns,
     idx |-> IF r.idx + 1 >= Len(r.conns) THEN 0 ELSE r.idx + 1,
     attempt |-> 0,
     switches |-> IF r.idx + 1 >= Len(r.conns) THEN 0 ELSE r.switches + 1,
     conn |-> r.conn]

\* workLoop, lines 211-221: rotate when the attempts are used up
RotateConnections(r) ==
    [conns |-> r.conns,
     idx |-> IF r.idx + 1 >= Len(r.conns) THEN 0 ELSE r.idx + 1,
     attempt |-> 0,
     switches |-> r.switches + 1,
     conn |-> r.conn]

\* a threshold test that is off by one
NeedsRotationStrict(attempt, maxAttempts) == attempt > maxAttempts

\* workLoop, line 211: the attempts against the active endpoint are used up
NeedsRotation(attempt, maxAttempts) == attempt >= maxAttempts

\* workLoop, lines 198-221: the if / else-if that precedes the connect
SelectConnection(r, maxAttempts) ==
    IF At(r.conns, r.idx).unrec THEN DiscardUnrecoverable(r)
    ELSE IF NeedsRotation(r.attempt, maxAttempts) THEN RotateConnections(r)
    ELSE r

\* a test that takes the sentinel for a pool
CanConnectNoSentinel(r) == r.conns # << >>

\* workLoop, lines 223-224: is there an endpoint to connect to
CanConnect(r) == r.conns # << >> /\ At(r.conns, r.idx).host # "exit"

\* workLoop, lines 227-230: count the attempt and bind the client
BindConnection(r) == [r EXCEPT !.attempt = r.attempt + 1, !.conn = r.idx + 1]

Registry ==
    [conns |-> m_connections, idx |-> m_activeConnectionIdx,
     attempt |-> m_connectionAttempt, switches |-> m_connectionSwitches,
     conn |-> clientConn]

\* the failover timer is armed on a connection to a non-primary endpoint
ArmFailover(idx, timeout) == idx # 0 /\ timeout > 0

\* ------------------------------------------------ m_activeConnectionMutex
\* mutexOwner is the thread that holds the mutex, or "none".  A thread takes
\* the mutex and runs the section it protects in one step, which needs the
\* mutex free; where the function goes on after the section, the release is
\* the thread's next step and the mutex is held in between.  A Guard whose
\* scope is the whole function body is taken and dropped in the one step.
\* Guard / UniqueGuard l(m_activeConnectionMutex)
Lock(t) == t

\* an unlock() that is missing before the client is called
UnlockMissing(t) == t

\* l.unlock(), lines 235, 243, 318, 377
Unlock(t) == "none"

\* the end of a Guard's scope
GuardExit(t) == "none"

\* std::out_of_range thrown by .at() under the mutex (lines 20, 198), which
\* nothing catches: std::terminate ends the process, and whether the stack
\* is unwound first is implementation-defined, so the Guard is destroyed
\* (mutex released) or still alive (mutex owned by t) when the process dies
UncaughtUnderLock(t) == {Lock(t), GuardExit(t)}

\* ------------------------------------------------------------ initial state

\* no setActiveConnection is waiting to be observed by the loop
NoSwitch == [host |-> "", reported |-> FALSE]

Init ==
    /\ m_connections = << >>
    /\ m_activeConnectionIdx = 0
    /\ m_connectionAttempt = 0
    /\ m_connectionSwitches = 0
    /\ m_running = FALSE
    /\ m_maxConnectionAttempts = MaxTries
    /\ m_failoverTimeout \in {0, 1}
    /\ timerArmed = FALSE
    /\ clientState = "disconnected"
    /\ clientConn = 0
    /\ mining = FALSE
    /\ loopPc = "idle" /\ apiPc = "idle" /\ connPc = "idle"
    /\ farmPc = "idle" /\ timerPc = "idle"
    /\ stopReturned = FALSE
    /\ discarded = ""
    /\ discTicks = 0
    /\ returning = ""
    /\ m_lastEpoch = 0           \* member initialiser in PoolManager.h
    /\ m_epochChanges = 0        \* member initialiser in PoolManager.h
    /\ workLog = << >>
    /\ switching = NoSwitch
    /\ mutexOwner = "none"

\* the host the manager returns to when the failover timer expires: the
\* endpoint at index 0, whatever its flag, when there is one
PrimaryHost(conns) ==
    IF conns # << >> THEN conns[1].host ELSE ""

\* discTicks counts the ticks of an undisturbed run: any other event on the
\* registry or a connected event saturates it
Disturbed == discTicks' = MaxTicks

\* ---------------------------------------------------------- supervisor loop
\* line 184: while (m_running), read without the mutex
workLoop_while ==
    /\ ~aborted /\ loopPc = "while"
    /\ UNCHANGED mutexOwner
    /\ UNCHANGED workVars
    /\ UNCHANGED switching
    /\ UNCHANGED returning
    /\ UNCHANGED discarded
    /\ loopPc' = IF ~m_running THEN "done" ELSE "pending"
    /\ UNCHANGED << registryVars, configVars, m_running,
                    timerArmed, clientState, clientConn, mining, apiPc, connPc,
                    farmPc, timerPc, stopReturned, discTicks >>

\* line 188: the test of isPendingState(); a pending client ends the tick
\* (hashrate report, sleep)
workLoop_isPendingState ==
    /\ ~aborted /\ loopPc = "pending"
    /\ UNCHANGED mutexOwner
    /\ UNCHANGED workVars
    /\ UNCHANGED switching
    /\ UNCHANGED returning
    /\ UNCHANGED discarded
    /\ loopPc' = IF isPendingState THEN "while" ELSE "chkconn"
    /\ UNCHANGED << registryVars, configVars, m_running,
                    timerArmed, clientState, clientConn, mining, apiPc, connPc,
                    farmPc, timerPc, stopReturned, discTicks >>

\* lines 190-193: a connected client ends the tick; otherwise suspendMining
\* (the farm's work package is not part of this state) and go for the mutex
workLoop_isConnected ==
    /\ ~aborted /\ loopPc = "chkconn"
    /\ UNCHANGED mutexOwner
    /\ UNCHANGED workVars
    /\ UNCHANGED switching
    /\ UNCHANGED returning
    /\ UNCHANGED discarded
    /\ loopPc' = IF isConnected THEN "while" ELSE "select"
    /\ discTicks' = IF ~isConnected /\ discTicks < MaxTicks
                    THEN discTicks + 1 ELSE discTicks
    /\ UNCHANGED << registryVars, configVars, m_running,
                    timerArmed, clientState, clientConn, mining, apiPc, connPc,
                    farmPc, timerPc, stopReturned >>

\* lines 195-230: the mutex taken and the section under it
workLoop_locked ==
    /\ ~aborted /\ loopPc = "select"
    /\ mutexOwner = "none"
    /\ mutexOwner' \in (IF InRange(m_connections, m_activeConnectionIdx)
                        THEN {Lock("loop")} ELSE UncaughtUnderLock("loop"))
    /\ UNCHANGED workVars
    /\ UNCHANGED switching
    /\ UNCHANGED returning
    /\ IF ~InRange(m_connections, m_activeConnectionIdx)
       THEN \* line 198: at() throws std::out_of_range
            /\ loopPc' = "aborted"
            /\ UNCHANGED << registryVars, clientConn, discarded >>
       ELSE LET r == SelectConnection(Registry, m_maxConnectionAttempts)
                q == IF CanConnect(r) THEN BindConnection(r) ELSE r
            IN  /\ r.switches <= MaxSwitches
                /\ m_connections' = q.conns
                /\ m_activeConnectionIdx' = q.idx
                /\ m_connectionAttempt' = q.attempt
                /\ m_connectionSwitches' = q.switches
                /\ clientConn' = q.conn
                /\ loopPc' = IF CanConnect(r) THEN "unlock" ELSE "unlock_exit"
                /\ discarded' =
                     IF At(m_connections, m_activeConnectionIdx).unrec
                     THEN At(m_connections, m_activeConnectionIdx).host ELSE ""
    /\ UNCHANGED << configVars, m_running, timerArmed,
                    clientState, mining, apiPc, connPc, farmPc, timerPc,
                    stopReturned, discTicks >>

\* l.unlock(), line 235 before connect() and line 243 on the exit path
workLoop_unlock ==
    /\ ~aborted /\ loopPc \in {"unlock", "unlock_exit"}
    /\ mutexOwner' = Unlock("loop")
    /\ UNCHANGED workVars
    /\ UNCHANGED switching
    /\ UNCHANGED returning
    /\ UNCHANGED discarded
    /\ loopPc' = IF loopPc = "unlock" THEN "connect" ELSE "exit"
    /\ UNCHANGED << registryVars, configVars, m_running,
                    timerArmed, clientState, clientConn, mining, apiPc, connPc,
                    farmPc, timerPc, stopReturned, discTicks >>

\* line 239: p_client->connect()
workLoop_connect ==
    /\ ~aborted /\ loopPc = "connect"
    /\ UNCHANGED mutexOwner
    /\ UNCHANGED workVars
    /\ switching' = NoSwitch
    /\ returning' = ""
    /\ discarded' = ""
    /\ clientState' = ClientConnect(clientState)
    /\ loopPc' = "while"
    /\ UNCHANGED << registryVars, configVars, m_running,
                    timerArmed, clientConn, mining, apiPc, connPc, farmPc,
                    timerPc, stopReturned, discTicks >>

\* lines 245-253: no more connections to try; stop the farm if it is
\* mining, the mutex released
workLoop_exit ==
    /\ ~aborted /\ loopPc = "exit"
    /\ UNCHANGED mutexOwner
    /\ UNCHANGED workVars
    /\ switching' = NoSwitch
    /\ returning' = ""
    /\ discarded' = ""
    /\ mining' = FALSE
    /\ loopPc' = "exit2"
    /\ UNCHANGED << registryVars, configVars, m_running, timerArmed,
                    clientState, clientConn, apiPc, connPc, farmPc, timerPc, stopReturned, discTicks >>

\* lines 255-256: m_running.store(false), continue
workLoop_exit_store ==
    /\ ~aborted /\ loopPc = "exit2"
    /\ UNCHANGED mutexOwner
    /\ UNCHANGED workVars
    /\ UNCHANGED switching
    /\ UNCHANGED returning
    /\ UNCHANGED discarded
    /\ m_running' = FALSE
    /\ loopPc' = "while"
    /\ UNCHANGED << registryVars, configVars, timerArmed, mining,
                    clientState, clientConn, apiPc, connPc, farmPc, timerPc, stopReturned, discTicks >>

\* ------------------------------------------------------- public control API
\* a run is undisturbed when the registry is as configured before start()
ApiDisturbs == discTicks' = IF loopPc = "idle" THEN discTicks ELSE MaxTicks

\* lines 282-286
callAddConnection(e) ==
    /\ ~aborted /\ apiPc = "idle"
    /\ mutexOwner = "none" /\ mutexOwner' = GuardExit("api")
    /\ UNCHANGED workVars
    /\ UNCHANGED switching
    /\ returning' = ""
    /\ UNCHANGED discarded
    /\ Len(m_connections) < MaxLen
    /\ \A k \in 1..Len(m_connections) : m_connections[k].host # e.host
    /\ LET r == addConnection(m_connections, m_activeConnectionIdx, e)
       IN  m_connections' = r.conns /\ m_activeConnectionIdx' = r.idx
    /\ clientConn' \in AfterPushBack(clientConn)
    /\ ApiDisturbs
    /\ UNCHANGED << m_connectionAttempt, m_connectionSwitches, configVars,
                    m_running, timerArmed, clientState,
                    mining, loopPc, apiPc, connPc, farmPc, timerPc, stopReturned >>

\* lines 288-296, for an index of the registry
callRemoveConnection(i) ==
    /\ ~aborted /\ apiPc = "idle"
    /\ mutexOwner = "none" /\ mutexOwner' = GuardExit("api")
    /\ UNCHANGED workVars
    /\ switching' = NoSwitch
    /\ returning' = ""
    /\ UNCHANGED discarded
    /\ InRange(m_connections, i)
    /\ LET r == removeConnection(m_connections, m_activeConnectionIdx, i)
       IN  m_connections' = r.conns /\ m_activeConnectionIdx' = r.idx
    /\ ApiDisturbs
    /\ UNCHANGED << m_connectionAttempt, m_connectionSwitches, configVars,
                    m_running, timerArmed, clientState,
                    clientConn, mining, loopPc, apiPc, connPc, farmPc, timerPc, stopReturned >>

\* lines 300-302: the mutex taken, the registry cleared
clearConnections ==
    /\ ~aborted /\ apiPc = "idle"
    /\ mutexOwner = "none" /\ mutexOwner' = Lock("api")
    /\ UNCHANGED workVars
    /\ switching' = NoSwitch
    /\ returning' = ""
    /\ UNCHANGED discarded
    /\ m_connections' = << >>
    /\ apiPc' = "clear_unlock"
    /\ ApiDisturbs
    /\ UNCHANGED << m_activeConnectionIdx, m_connectionAttempt,
                    m_connectionSwitches, configVars, m_running, timerArmed, clientState, clientConn,
                    mining, loopPc, connPc, farmPc, timerPc,
                    stopReturned >>

\* line 303: the end of the Guard's scope
clearConnections_unlock ==
    /\ ~aborted /\ apiPc = "clear_unlock"
    /\ mutexOwner' = GuardExit("api")
    /\ UNCHANGED workVars
    /\ UNCHANGED switching
    /\ UNCHANGED returning
    /\ UNCHANGED discarded
    /\ apiPc' = "clear1"
    /\ UNCHANGED << registryVars, configVars, m_running,
                    timerArmed, clientState, clientConn, mining, loopPc,
                    connPc, farmPc, timerPc, stopReturned, discTicks >>

\* line 304: clearConnections asks the client whether it is connected
clearConnections_isConnected ==
    /\ ~aborted /\ apiPc = "clear1"
    /\ UNCHANGED mutexOwner
    /\ UNCHANGED workVars
    /\ UNCHANGED switching
    /\ UNCHANGED returning
    /\ UNCHANGED discarded
    /\ apiPc' = IF isConnected THEN "clear2" ELSE "idle"
    /\ UNCHANGED << registryVars, configVars, m_running,
                    timerArmed, clientState, clientConn, mining, loopPc,
                    connPc, farmPc, timerPc, stopReturned, discTicks >>

\* line 305: p_client->disconnect(), on the client as it is by now
clearConnections_disconnect ==
    /\ ~aborted /\ apiPc = "clear2"
    /\ UNCHANGED mutexOwner
    /\ UNCHANGED workVars
    /\ UNCHANGED switching
    /\ UNCHANGED returning
    /\ UNCHANGED discarded
    /\ clientState' = ClientDisconnect(clientState)
    /\ apiPc' = "idle"
    /\ UNCHANGED << registryVars, configVars, m_running,
                    timerArmed, clientConn, mining, loopPc, connPc, farmPc,
                    timerPc, stopReturned, discTicks >>

\* lines 311-317, for an index of the registry: the mutex taken, the early
\* return or the switch
setActiveConnection(i) ==
    /\ ~aborted /\ apiPc = "idle"
    /\ mutexOwner = "none"
    /\ mutexOwner' = IF i = m_activeConnectionIdx
                     THEN GuardExit("api") ELSE Lock("api")
    /\ UNCHANGED workVars
    /\ UNCHANGED discarded
    /\ InRange(m_connections, i)
    /\ IF i = m_activeConnectionIdx
       THEN UNCHANGED << registryVars, apiPc, discTicks, returning, switching >>
       ELSE /\ returning' = ""
            /\ switching' = [host |-> At(m_connections, i).host, reported |-> FALSE]
            /\ m_connectionSwitches < MaxSwitches
            /\ m_connectionSwitches' = m_connectionSwitches + 1
            /\ m_activeConnectionIdx' = i
            /\ m_connectionAttempt' = 0
            /\ apiPc' = "setactive_unlock"
            /\ ApiDisturbs
            /\ UNCHANGED m_connections
    /\ UNCHANGED << configVars, m_running, timerArmed,
                    clientState, clientConn, mining, loopPc, connPc, farmPc,
                    timerPc, stopReturned >>

\* l.unlock(), line 318
setActiveConnection_unlock ==
    /\ ~aborted /\ apiPc = "setactive_unlock"
    /\ mutexOwner' = Unlock("api")
    /\ UNCHANGED workVars
    /\ UNCHANGED switching
    /\ UNCHANGED returning
    /\ UNCHANGED discarded
    /\ apiPc' = "setactive2"
    /\ UNCHANGED << registryVars, configVars, m_running,
                    timerArmed, clientState, clientConn, mining, loopPc,
                    connPc, farmPc, timerPc, stopReturned, discTicks >>

\* lines 319-322: disconnect, then suspendMining
setActiveConnection_disconnect ==
    /\ ~aborted /\ apiPc = "setactive2"
    /\ UNCHANGED mutexOwner
    /\ UNCHANGED workVars
    /\ UNCHANGED switching
    /\ UNCHANGED returning
    /\ UNCHANGED discarded
    /\ clientState' = ClientDisconnect(clientState)
    /\ apiPc' = "idle"
    /\ UNCHANGED << registryVars, configVars, m_running,
                    timerArmed, clientConn, mining, loopPc, connPc, farmPc,
                    timerPc, stopReturned, discTicks >>

\* lines 351-363; the manager is started once
start ==
    /\ ~aborted /\ apiPc = "idle" /\ loopPc = "idle"
    /\ mutexOwner = "none" /\ mutexOwner' = GuardExit("api")
    /\ UNCHANGED workVars
    /\ UNCHANGED switching
    /\ UNCHANGED returning
    /\ UNCHANGED discarded
    /\ IF Len(m_connections) > 0
       THEN /\ m_running' = TRUE
            /\ loopPc' = "while"
            /\ discTicks' = IF /\ m_activeConnectionIdx = 0
                               /\ m_connectionSwitches = 0
                            THEN 0 ELSE MaxTicks
       ELSE UNCHANGED << m_running, loopPc, discTicks >>
    /\ UNCHANGED << registryVars, configVars, timerArmed,
                    clientState, clientConn, mining, apiPc, connPc, farmPc,
                    timerPc, stopReturned >>

\* lines 162-167: clear m_running, cancel the failover timer
stop ==
    /\ ~aborted /\ apiPc = "idle"
    /\ UNCHANGED mutexOwner
    /\ UNCHANGED workVars
    /\ switching' = IF m_running THEN NoSwitch ELSE switching
    /\ UNCHANGED discarded
    /\ IF m_running
       THEN /\ m_running' = FALSE
            /\ timerArmed' = FALSE
            /\ apiPc' = "stop1"
            /\ returning' = ""
       ELSE UNCHANGED << m_running, timerArmed, apiPc, returning >>
    /\ UNCHANGED << registryVars, configVars, clientState,
                    clientConn, mining, loopPc, connPc, farmPc, timerPc, stopReturned, discTicks >>

\* line 169: stop() asks the client whether it is connected, no lock held
stop_isConnected ==
    /\ ~aborted /\ apiPc = "stop1"
    /\ UNCHANGED mutexOwner
    /\ UNCHANGED workVars
    /\ UNCHANGED switching
    /\ UNCHANGED returning
    /\ UNCHANGED discarded
    /\ apiPc' = IF isConnected THEN "stop2" ELSE "stop3"
    /\ UNCHANGED << registryVars, configVars, m_running, timerArmed,
                    clientState, clientConn, mining, loopPc, connPc, farmPc,
                    timerPc, stopReturned, discTicks >>

\* line 170: p_client->disconnect(), on the client as it is by now
stop_disconnect ==
    /\ ~aborted /\ apiPc = "stop2"
    /\ UNCHANGED mutexOwner
    /\ UNCHANGED workVars
    /\ UNCHANGED switching
    /\ UNCHANGED returning
    /\ UNCHANGED discarded
    /\ clientState' = ClientDisconnect(clientState)
    /\ apiPc' = "stop3"
    /\ UNCHANGED << registryVars, configVars, m_running, timerArmed,
                    clientConn, mining, loopPc, connPc, farmPc, timerPc,
                    stopReturned, discTicks >>

\* lines 172-177: stop the farm if it is mining, return
stop_farm ==
    /\ ~aborted /\ apiPc = "stop3"
    /\ UNCHANGED mutexOwner
    /\ UNCHANGED workVars
    /\ UNCHANGED switching
    /\ UNCHANGED returning
    /\ UNCHANGED discarded
    /\ mining' = FALSE
    /\ stopReturned' = TRUE
    /\ apiPc' = "idle"
    /\ UNCHANGED << registryVars, configVars, m_running, timerArmed,
                    clientState, clientConn, loopPc, connPc, farmPc, timerPc,
                    discTicks >>

\* ------------------------------------------------------ pool client events
\* the attempt succeeds; onConnected, lines 18-37: the mutex taken and the
\* section under it
onConnected ==
    /\ ~aborted /\ connPc = "idle" /\ clientState = "connecting"
    /\ mutexOwner = "none"
    /\ mutexOwner' \in (IF InRange(m_connections, m_activeConnectionIdx)
                        THEN {Lock("conn")} ELSE UncaughtUnderLock("conn"))
    /\ UNCHANGED workVars
    /\ UNCHANGED switching
    /\ UNCHANGED returning
    /\ UNCHANGED discarded
    /\ clientState' = "connected"
    /\ IF ~InRange(m_connections, m_activeConnectionIdx)
       THEN \* line 20: at() throws std::out_of_range
            /\ connPc' = "aborted"
            /\ UNCHANGED timerArmed
       ELSE \* line 20 stores the host for the log lines, which nothing reads
            /\ timerArmed' = ArmFailover(m_activeConnectionIdx, m_failoverTimeout)
            /\ connPc' = "unlock"
    /\ Disturbed
    /\ UNCHANGED << registryVars, configVars, m_running, clientConn, mining,
                    loopPc, apiPc, farmPc, timerPc, stopReturned >>

\* onConnected, line 38: the end of the Guard's scope
onConnected_unlock ==
    /\ ~aborted /\ connPc = "unlock"
    /\ mutexOwner' = GuardExit("conn")
    /\ UNCHANGED workVars
    /\ UNCHANGED switching
    /\ UNCHANGED returning
    /\ UNCHANGED discarded
    /\ connPc' = "startfarm"
    /\ UNCHANGED << registryVars, configVars, m_running,
                    timerArmed, clientState, clientConn, mining, loopPc, apiPc,
                    farmPc, timerPc, stopReturned, discTicks >>

\* onConnected, lines 40-52: start the farm when it is not mining
onConnected_startFarm ==
    /\ ~aborted /\ connPc = "startfarm"
    /\ UNCHANGED mutexOwner
    /\ UNCHANGED workVars
    /\ UNCHANGED switching
    /\ UNCHANGED returning
    /\ UNCHANGED discarded
    /\ mining' = TRUE
    /\ connPc' = "idle"
    /\ UNCHANGED << registryVars, configVars, m_running,
                    timerArmed, clientState, clientConn, loopPc, apiPc, farmPc,
                    timerPc, stopReturned, discTicks >>

\* the attempt fails, the session drops or a requested close completes;
\* onDisconnected, lines 55-62, only logs
onDisconnected ==
    /\ ~aborted /\ connPc = "idle"
    /\ UNCHANGED mutexOwner
    /\ UNCHANGED workVars
    /\ switching' = IF switching.host # "" THEN [switching EXCEPT !.reported = TRUE]
                   ELSE switching
    /\ UNCHANGED returning
    /\ UNCHANGED discarded
    /\ clientState \in {"connecting", "connected", "disconnecting"}
    /\ clientState' = "disconnected"
    /\ UNCHANGED << registryVars, configVars, m_running,
                    timerArmed, clientConn, mining, loopPc, apiPc, connPc,
                    farmPc, timerPc, stopReturned, discTicks >>

\* a terminal protocol error: the client flags the endpoint it is bound to
\* (through a dangling pointer the write lands in storage the vector has
\* freed and reaches no element of the registry)
MarkUnrecoverable ==
    /\ ~aborted /\ connPc = "idle"
    /\ UNCHANGED mutexOwner
    /\ UNCHANGED workVars
    /\ switching' = NoSwitch
    /\ returning' = ""
    /\ UNCHANGED discarded
    /\ clientState \in {"connecting", "connected"}
    /\ clientConn \in 1..Len(m_connections)
    /\ ~m_connections[clientConn].unrec
    /\ m_connections' = [m_connections EXCEPT ![clientConn].unrec = TRUE]
    /\ Disturbed
    /\ UNCHANGED << m_activeConnectionIdx, m_connectionAttempt,
                    m_connectionSwitches, configVars, m_running, timerArmed, clientState, clientConn,
                    mining, loopPc, apiPc, connPc, farmPc, timerPc,
                    stopReturned >>

\* ------------------------------------------------------------- farm events
\* onSolutionFound, line 119: the test of isConnected(); a solution found
\* while not connected is logged as wasted and the handler returns
onSolutionFound ==
    /\ ~aborted /\ farmPc = "idle" /\ mining
    /\ UNCHANGED mutexOwner
    /\ UNCHANGED workVars
    /\ UNCHANGED switching
    /\ UNCHANGED returning
    /\ UNCHANGED discarded
    /\ farmPc' = IF isConnected THEN "submit" ELSE "idle"
    /\ UNCHANGED << registryVars, configVars, m_running,
                    timerArmed, clientState, clientConn, mining, loopPc, apiPc,
                    connPc, timerPc, stopReturned, discTicks >>

\* onSolutionFound, line 127: p_client->submitSolution
submitSolution ==
    /\ ~aborted /\ farmPc = "submit"
    /\ UNCHANGED mutexOwner
    /\ UNCHANGED workVars
    /\ UNCHANGED switching
    /\ UNCHANGED returning
    /\ UNCHANGED discarded
    /\ farmPc' = "idle"
    /\ UNCHANGED << registryVars, configVars, m_running,
                    timerArmed, clientState, clientConn, mining, loopPc, apiPc,
                    connPc, timerPc, stopReturned, discTicks >>

\* onMinerRestart, lines 137-145: stop the farm if it is mining
onMinerRestart ==
    /\ ~aborted /\ farmPc = "idle"
    /\ UNCHANGED mutexOwner
    /\ UNCHANGED workVars
    /\ UNCHANGED switching
    /\ UNCHANGED returning
    /\ UNCHANGED discarded
    /\ mining' = FALSE
    /\ farmPc' = "restart"
    /\ UNCHANGED << registryVars, configVars, m_running,
                    timerArmed, clientState, clientConn, loopPc, apiPc, connPc,
                    timerPc, stopReturned, discTicks >>

\* onMinerRestart, lines 147-156: start the farm
onMinerRestart_start ==
    /\ ~aborted /\ farmPc = "restart"
    /\ UNCHANGED mutexOwner
    /\ UNCHANGED workVars
    /\ UNCHANGED switching
    /\ UNCHANGED returning
    /\ UNCHANGED discarded
    /\ mining' = TRUE
    /\ farmPc' = "idle"
    /\ UNCHANGED << registryVars, configVars, m_running,
                    timerArmed, clientState, clientConn, loopPc, apiPc, connPc,
                    timerPc, stopReturned, discTicks >>

\* ---------------------------------------------------------- failover timer
\* the timer fires; check_failover_timeout with no error, lines 367-369: the
\* read of m_running, before the mutex is taken
check_failover_timeout ==
    /\ ~aborted /\ timerPc = "idle" /\ timerArmed
    /\ UNCHANGED mutexOwner
    /\ UNCHANGED workVars
    /\ UNCHANGED switching
    /\ UNCHANGED returning
    /\ UNCHANGED discarded
    /\ timerArmed' = FALSE
    /\ timerPc' = IF m_running THEN "lock" ELSE "idle"
    /\ UNCHANGED << registryVars, configVars, m_running, clientState,
                    clientConn, mining, loopPc, apiPc, connPc, farmPc,
                    stopReturned, discTicks >>

\* check_failover_timeout, lines 371-376: the mutex taken, back to index 0
check_failover_locked ==
    /\ ~aborted /\ timerPc = "lock"
    /\ mutexOwner = "none"
    /\ mutexOwner' = IF m_activeConnectionIdx # 0
                     THEN Lock("timer") ELSE GuardExit("timer")
    /\ UNCHANGED workVars
    /\ UNCHANGED discarded
    /\ IF m_activeConnectionIdx # 0
       THEN /\ m_connectionSwitches < MaxSwitches
            /\ m_activeConnectionIdx' = 0
            /\ m_connectionAttempt' = 0
            /\ m_connectionSwitches' = m_connectionSwitches + 1
            /\ timerPc' = "unlock"
            /\ Disturbed
            /\ returning' = PrimaryHost(m_connections)
            /\ switching' = NoSwitch
            /\ UNCHANGED m_connections
       ELSE /\ timerPc' = "idle"
            /\ UNCHANGED << registryVars, discTicks, returning, switching >>
    /\ UNCHANGED << configVars, m_running, timerArmed, clientState,
                    clientConn, mining, loopPc, apiPc, connPc, farmPc,
                    stopReturned >>

\* check_failover_timeout, l.unlock() at line 377
check_failover_unlock ==
    /\ ~aborted /\ timerPc = "unlock"
    /\ mutexOwner' = Unlock("timer")
    /\ UNCHANGED workVars
    /\ UNCHANGED switching
    /\ UNCHANGED returning
    /\ UNCHANGED discarded
    /\ timerPc' = "disconnect"
    /\ UNCHANGED << registryVars, configVars, m_running, timerArmed,
                    clientState, clientConn, mining, loopPc, apiPc, connPc,
                    farmPc, stopReturned, discTicks >>

\* check_failover_timeout, line 379: disconnect
check_failover_disconnect ==
    /\ ~aborted /\ timerPc = "disconnect"
    /\ UNCHANGED mutexOwner
    /\ UNCHANGED workVars
    /\ UNCHANGED switching
    /\ UNCHANGED returning
    /\ UNCHANGED discarded
    /\ clientState' = ClientDisconnect(clientState)
    /\ timerPc' = "idle"
    /\ UNCHANGED << registryVars, configVars, m_running,
                    timerArmed, clientConn, mining, loopPc, apiPc, connPc,
                    farmPc, stopReturned, discTicks >>

\* ------------------------------------------------------------ work packages
\* lines 82-87 with the mutation under test: the epoch counted, not stored
EpochCountedNotStored(last, changes, e) ==
    IF e # last THEN [last |-> last, changes |-> changes + 1]
    ELSE [last |-> last, changes |-> changes]

\* lines 82-87: an epoch other than the last one is stored and counted
EpochUpdate(last, changes, e) ==
    IF e # last THEN [last |-> e, changes |-> changes + 1]
    ELSE [last |-> last, changes |-> changes]

\* the pool sends a work package while the session is up; onWorkReceived,
\* lines 64-90 (boundary, difficulty and the farm's work are not modelled)
onWorkReceived(e) ==
    /\ ~aborted /\ connPc = "idle" /\ clientState = "connected"
    /\ Len(workLog) < MaxWork
    /\ LET w == EpochUpdate(m_lastEpoch, m_epochChanges, e)
       IN  m_lastEpoch' = w.last /\ m_epochChanges' = w.changes
    /\ workLog' = Append(workLog, e)
    /\ UNCHANGED << registryVars, configVars, m_running, timerArmed, clientState,
                    clientConn, mining, loopPc, apiPc, connPc, farmPc, timerPc,
                    stopReturned, discarded, discTicks, returning, switching, mutexOwner >>

\* -------------------------------------------------------------- the system
Next ==
    \/ workLoop_while
    \/ workLoop_isPendingState
    \/ workLoop_isConnected
    \/ workLoop_locked
    \/ workLoop_unlock
    \/ workLoop_connect
    \/ workLoop_exit
    \/ workLoop_exit_store
    \/ \E h \in Hosts : callAddConnection(NewEndpoint(h))
    \/ \E i \in 0..(MaxLen - 1) : callRemoveConnection(i)
    \/ clearConnections
    \/ clearConnections_unlock
    \/ clearConnections_isConnected
    \/ clearConnections_disconnect
    \/ \E i \in 0..(MaxLen - 1) : setActiveConnection(i)
    \/ setActiveConnection_unlock
    \/ setActiveConnection_disconnect
    \/ start
    \/ stop
    \/ stop_isConnected
    \/ stop_disconnect
    \/ stop_farm
    \/ onConnected
    \/ onConnected_unlock
    \/ onConnected_startFarm
    \/ onDisconnected
    \/ MarkUnrecoverable
    \/ onSolutionFound
    \/ submitSolution
    \/ onMinerRestart
    \/ onMinerRestart_start
    \/ check_failover_timeout
    \/ check_failover_locked
    \/ check_failover_unlock
    \/ check_failover_disconnect
    \/ \E e \in Epochs : onWorkReceived(e)

Spec == Init /\ [][Next]_vars

\* the loop, the client's events, the failover timer and the control calls
\* that write the active index or the attempt count (addConnection,
\* setActiveConnection, start)
NextCore ==
    \/ workLoop_while
    \/ workLoop_isPendingState
    \/ workLoop_isConnected
    \/ workLoop_locked
    \/ workLoop_unlock
    \/ workLoop_connect
    \/ workLoop_exit
    \/ workLoop_exit_store
    \/ \E h \in Hosts : callAddConnection(NewEndpoint(h))
    \/ \E i \in 0..(MaxLen - 1) : setActiveConnection(i)
    \/ setActiveConnection_unlock
    \/ setActiveConnection_disconnect
    \/ start
    \/ onConnected
    \/ onConnected_unlock
    \/ onConnected_startFarm
    \/ onDisconnected
    \/ MarkUnrecoverable
    \/ check_failover_timeout
    \/ check_failover_locked
    \/ check_failover_unlock
    \/ check_failover_disconnect

SpecCore == Init /\ [][NextCore]_vars

\* the manager constructed with a failover timeout (with timeout 0 the timer
\* is never armed, so those runs are the runs from here in which the timer
\* is armed and never expires)
InitFailover == Init /\ m_failoverTimeout = 1

\* every operation that takes the mutex or calls the client, without the
\* farm's own callbacks; each section under the mutex is entered and left in
\* separate steps (two pool names: no lock depends on an endpoint's name)
NextLocks ==
    \/ workLoop_while
    \/ workLoop_isPendingState
    \/ workLoop_isConnected
    \/ workLoop_locked
    \/ workLoop_unlock
    \/ workLoop_connect
    \/ workLoop_exit
    \/ workLoop_exit_store
    \/ \E h \in {"A", "B"} : callAddConnection(NewEndpoint(h))
    \/ \E i \in 0..(MaxLen - 1) : callRemoveConnection(i)
    \/ clearConnections
    \/ clearConnections_unlock
    \/ clearConnections_isConnected
    \/ clearConnections_disconnect
    \/ \E i \in 0..(MaxLen - 1) : setActiveConnection(i)
    \/ setActiveConnection_unlock
    \/ setActiveConnection_disconnect
    \/ start
    \/ stop
    \/ stop_isConnected
    \/ stop_disconnect
    \/ stop_farm
    \/ onConnected
    \/ onConnected_unlock
    \/ onConnected_startFarm
    \/ onDisconnected
    \/ MarkUnrecoverable
    \/ check_failover_timeout
    \/ check_failover_locked
    \/ check_failover_unlock
    \/ check_failover_disconnect

SpecLocks == InitFailover /\ [][NextLocks]_vars

\* the manager without work packages: onWorkReceived reads and writes only
\* m_lastEpoch and m_epochChanges, which nothing else reads or writes
\* (two pool names; the loop also ends on a registry the discard emptied)
NextManager ==
    \/ workLoop_while
    \/ workLoop_isPendingState
    \/ workLoop_isConnected
    \/ workLoop_locked
    \/ workLoop_unlock
    \/ workLoop_connect
    \/ workLoop_exit
    \/ workLoop_exit_store
    \/ \E h \in {"A", "B"} : callAddConnection(NewEndpoint(h))
    \/ \E i \in 0..(MaxLen - 1) : callRemoveConnection(i)
    \/ clearConnections
    \/ clearConnections_unlock
    \/ clearConnections_isConnected
    \/ clearConnections_disconnect
    \/ \E i \in 0..(MaxLen - 1) : setActiveConnection(i)
    \/ setActiveConnection_unlock
    \/ setActiveConnection_disconnect
    \/ start
    \/ stop
    \/ stop_isConnected
    \/ stop_disconnect
    \/ stop_farm
    \/ onConnected
    \/ onConnected_unlock
    \/ onConnected_startFarm
    \/ onDisconnected
    \/ MarkUnrecoverable
    \/ check_failover_timeout
    \/ check_failover_locked
    \/ check_failover_unlock
    \/ check_failover_disconnect
    \/ onSolutionFound
    \/ submitSolution
    \/ onMinerRestart
    \/ onMinerRestart_start

SpecManager == Init /\ [][NextManager]_vars

\* one pool session after another with work packages: the loop, the client's
\* events, start and addConnection
NextWork ==
    \/ workLoop_while
    \/ workLoop_isPendingState
    \/ workLoop_isConnected
    \/ workLoop_locked
    \/ workLoop_unlock
    \/ workLoop_connect
    \/ workLoop_exit
    \/ workLoop_exit_store
    \/ \E h \in Hosts : callAddConnection(NewEndpoint(h))
    \/ start
    \/ onConnected
    \/ onConnected_unlock
    \/ onConnected_startFarm
    \/ onDisconnected
    \/ \E e \in Epochs : onWorkReceived(e)

SpecWork == Init /\ [][NextWork]_vars

\* every operation that moves a counter: the loop's rotation and discard,
\* setActiveConnection, the failover expiry and onWorkReceived
\* (two pool names: no counter depends on an endpoint's name, and the loop
\* also ends on a registry the discard emptied)
NextCounters ==
    \/ workLoop_while
    \/ workLoop_isPendingState
    \/ workLoop_isConnected
    \/ workLoop_locked
    \/ workLoop_unlock
    \/ workLoop_connect
    \/ workLoop_exit
    \/ workLoop_exit_store
    \/ \E h \in {"A", "B"} : callAddConnection(NewEndpoint(h))
    \/ \E i \in 0..(MaxLen - 1) : setActiveConnection(i)
    \/ setActiveConnection_unlock
    \/ setActiveConnection_disconnect
    \/ start
    \/ onConnected
    \/ onConnected_unlock
    \/ onConnected_startFarm
    \/ onDisconnected
    \/ MarkUnrecoverable
    \/ check_failover_timeout
    \/ check_failover_locked
    \/ check_failover_unlock
    \/ check_failover_disconnect
    \/ \E e \in Epochs : onWorkReceived(e)

SpecCounters == InitFailover /\ [][NextCounters]_vars

\* a configured list served from start to the end of the run: the loop and
\* the client's events, no control call but addConnection and start
NextExit ==
    \/ workLoop_while
    \/ workLoop_isPendingState
    \/ workLoop_isConnected
    \/ workLoop_locked
    \/ workLoop_unlock
    \/ workLoop_connect
    \/ workLoop_exit
    \/ workLoop_exit_store
    \/ \E h \in Hosts : callAddConnection(NewEndpoint(h))
    \/ start
    \/ onConnected
    \/ onConnected_unlock
    \/ onConnected_startFarm
    \/ onDisconnected
    \/ MarkUnrecoverable

\* the loop's thread keeps running, a handler that has started finishes, and
\* a connecting or disconnecting client ends up disconnected unless it connects
LoopFairness ==
    /\ WF_vars(workLoop_while)
    /\ WF_vars(workLoop_isPendingState)
    /\ WF_vars(workLoop_isConnected)
    /\ WF_vars(workLoop_locked)
    /\ WF_vars(workLoop_unlock)
    /\ WF_vars(workLoop_connect)
    /\ WF_vars(workLoop_exit)
    /\ WF_vars(workLoop_exit_store)
    /\ WF_vars(onConnected_unlock)
    /\ WF_vars(onConnected_startFarm)
    /\ WF_vars(isPendingState /\ onDisconnected)

SpecExit == Init /\ [][NextExit]_vars /\ LoopFairness

\* a client that never gets through: every attempt ends in a disconnect
NextRoundRobin ==
    \/ workLoop_while
    \/ workLoop_isPendingState
    \/ workLoop_isConnected
    \/ workLoop_locked
    \/ workLoop_unlock
    \/ workLoop_connect
    \/ workLoop_exit
    \/ workLoop_exit_store
    \/ \E h \in Hosts : callAddConnection(NewEndpoint(h))
    \/ start
    \/ onDisconnected

SpecRoundRobin == Init /\ [][NextRoundRobin]_vars /\ LoopFairness


\* ------------------------------------------------------------------ claims
connectedEvent == clientState = "connecting" /\ clientState' = "connected"

\* C1: while the manager runs and the registry is not empty, the active
\* index is an index of the registry, in every state, those with a thread
\* inside a section under the mutex included.
C1_ActiveIndexInRange ==
    (m_running /\ Len(m_connections) > 0)
        => m_activeConnectionIdx < Len(m_connections)

\* C2: submitSolution is called only while the client is connected.
C2_SubmitOnlyWhileConnected ==
    [][(farmPc = "submit" /\ farmPc' = "idle") => clientState = "connected"]_vars

\* C3: once stop() has returned, the supervisor loop begins no further tick
\* and the tick in progress runs to its end, so that the loop exits: it is
\* never left by an exception.
C3_LoopExitsAfterStop ==
    [][stopReturned =>
          /\ loopPc' # "aborted"
          /\ ~(loopPc = "while" /\ loopPc' = "pending")]_vars

\* C4: after stop() has returned the farm is not mining.
C4_NotMiningAfterStop == stopReturned => ~mining

\* C5: immediately after a connected event m_connectionAttempt is 0.
C5_AttemptZeroAfterConnected ==
    [][connectedEvent => m_connectionAttempt' = 0]_vars

\* C6: a tick that reaches the mutex with an empty registry releases it and
\* takes the exit path (stop the farm, clear m_running); it raises no error.
C6_EmptyRegistryExits ==
    [][/\ (loopPc = "select" /\ m_connections = << >> /\ loopPc' # "select")
              => loopPc' = "unlock_exit"
       /\ (loopPc = "unlock_exit" /\ loopPc' # "unlock_exit")
              => loopPc' = "exit" /\ mutexOwner' = "none"]_vars

\* the loop has bound the client and goes on to connect()
TowardsConnect == loopPc \in {"unlock", "connect"}

\* an undisturbed run against a registry of two or more endpoints: the tick
\* that has just run its section under the mutex was the k-th to find the
\* client disconnected
AfterDisconnectedTick(k) ==
    /\ loopPc \in {"unlock", "unlock_exit", "connect", "exit"}
    /\ discTicks = k
    /\ Len(m_connections) >= 2

\* C7 (as claimed): after max_attempts ticks that observed the client
\* disconnected the manager has rotated: active index 1, one switch.
C7_RotatedAfterMaxTicks ==
    AfterDisconnectedTick(m_maxConnectionAttempts)
        => m_activeConnectionIdx = 1 /\ m_connectionSwitches = 1

\* C7 (amended): the first max_attempts ticks that observe the client
\* disconnected each spend one attempt on endpoint 0; the rotation happens in
\* the next such tick, number max_attempts + 1, which resets the attempt
\* count to 0, moves to index 1, counts one switch and, unless endpoint 1 is
\* the "exit" sentinel, counts the first attempt against endpoint 1.
C7_RotatedAfterMaxPlusOneTicks ==
    /\ \A k \in 1..m_maxConnectionAttempts :
          AfterDisconnectedTick(k) =>
              /\ m_activeConnectionIdx = 0
              /\ m_connectionSwitches = 0
              /\ m_connectionAttempt = (IF TowardsConnect THEN k ELSE k - 1)
    /\ AfterDisconnectedTick(m_maxConnectionAttempts + 1) =>
          /\ m_activeConnectionIdx = 1
          /\ m_connectionSwitches = 1
          /\ m_connectionAttempt = (IF TowardsConnect THEN 1 ELSE 0)

C7_Witness ==
    /\ AfterDisconnectedTick(m_maxConnectionAttempts + 1)
    /\ m_connections = << NewEndpoint("A"), NewEndpoint("B") >>
    /\ m_activeConnectionIdx = 1
    /\ m_connectionSwitches = 1
    /\ clientConn = 2

\* C8: a tick that takes the mutex with the active endpoint flagged
\* unrecoverable erases that endpoint, resets the attempt count to 0, wraps
\* the active index to 0 when it left the range, counts exactly one switch
\* and clears the client's binding; it then either exits (registry empty or
\* "exit" sentinel active) or binds the client to the new active endpoint,
\* never to the erased one, and counts the first attempt against it.
C8_UnrecoverableErased ==
    [][(/\ loopPc = "select" /\ loopPc' # "select"
        /\ InRange(m_connections, m_activeConnectionIdx)
        /\ At(m_connections, m_activeConnectionIdx).unrec)
       => LET gone == At(m_connections, m_activeConnectionIdx)
              rest == SubSeq(m_connections, 1, m_activeConnectionIdx)
                          \o SubSeq(m_connections, m_activeConnectionIdx + 2,
                                    Len(m_connections))
              r == SelectConnection(Registry, m_maxConnectionAttempts)
          IN  /\ r.conns = rest /\ r.attempt = 0 /\ r.conn = 0
              /\ r.switches = m_connectionSwitches + 1
              /\ r.idx = (IF m_activeConnectionIdx < Len(rest)
                          THEN m_activeConnectionIdx ELSE 0)
              /\ m_connections' = rest
              /\ m_activeConnectionIdx' = r.idx
              /\ m_connectionSwitches' = m_connectionSwitches + 1
              /\ discarded' = gone.host
              /\ IF rest = << >> \/ rest[r.idx + 1].host = "exit"
                 THEN /\ loopPc' = "unlock_exit"
                      /\ m_connectionAttempt' = 0
                      /\ clientConn' = 0
                 ELSE /\ loopPc' = "unlock"
                      /\ m_connectionAttempt' = 1
                      /\ clientConn' = r.idx + 1
                      /\ rest[clientConn'] # gone]_vars

C8_Witness ==
    /\ discarded = "A"
    /\ loopPc = "connect"
    /\ m_connections = << NewEndpoint("B") >>
    /\ m_activeConnectionIdx = 0
    /\ m_connectionSwitches = 1
    /\ m_connectionAttempt = 1
    /\ clientConn = 1

\* C9: in every reachable registry state, adding an endpoint and removing
\* it at the index it received gives back the same endpoints and the same
\* active index.
C9_AddRemoveRestores ==
    \A h \in Hosts :
        LET a == addConnection(m_connections, m_activeConnectionIdx,
                               NewEndpoint(h))
            b == removeConnection(a.conns, a.idx, Len(m_connections))
        IN  b.conns = m_connections /\ b.idx = m_activeConnectionIdx

\* C10: the failover timer becomes armed only in a connected event with a
\* non-primary active index and a positive timeout, and a connected event
\* with active index 0 or timeout 0 leaves no timer armed.
C10_TimerArmedOnlyOffPrimary ==
    [][/\ (~timerArmed /\ timerArmed') =>
              /\ connectedEvent
              /\ m_activeConnectionIdx # 0 /\ m_failoverTimeout > 0
       /\ (connectedEvent /\ (m_activeConnectionIdx = 0 \/ m_failoverTimeout = 0))
              => ~timerArmed']_vars

\* the failover expiry: check_failover_timeout, which found the manager
\* running, runs its section under the mutex
expiryEvent == timerPc = "lock" /\ timerPc' # "lock"
\* the supervisor loop calls connect()
connectCall == loopPc = "connect" /\ loopPc' = "while"
BoundHost ==
    IF clientConn \in 1..Len(m_connections)
    THEN m_connections[clientConn].host ELSE ""

\* C11: failover return.  A connected event on a non-primary endpoint of the
\* registry arms the timer; its expiry while running with a non-zero active
\* index sets the active index and the attempt count to 0, counts one switch
\* and requests a disconnect; the next connection the supervisor loop
\* initiates (no API call in between, the primary not erased as
\* unrecoverable by that tick) is to the primary endpoint, and the connected
\* event that finds active index 0 arms no timer.
C11_FailoverReturnsToPrimary ==
    [][/\ (/\ connectedEvent /\ m_failoverTimeout > 0
           /\ m_activeConnectionIdx # 0
           /\ InRange(m_connections, m_activeConnectionIdx)) => timerArmed'
       /\ (expiryEvent /\ m_activeConnectionIdx # 0) =>
              /\ m_activeConnectionIdx' = 0
              /\ m_connectionAttempt' = 0
              /\ m_connectionSwitches' = m_connectionSwitches + 1
              /\ timerPc' = "unlock"
       /\ (timerPc = "unlock" /\ timerPc' # "unlock") =>
              timerPc' = "disconnect" /\ mutexOwner' = "none"
       /\ (connectCall /\ returning # "" /\ discarded = "") =>
              BoundHost = returning
       /\ (/\ connectedEvent /\ m_activeConnectionIdx = 0
           /\ InRange(m_connections, m_activeConnectionIdx)) => ~timerArmed'
      ]_vars

\* the distinct epoch values among the work packages received
EpochsObserved == { workLog[k] : k \in 1..Len(workLog) }
\* the work packages whose epoch differs from the one before (the first one:
\* from the initial last epoch, 0)
EpochChangesIn(log) ==
    Cardinality({ k \in 1..Len(log) :
                    log[k] # (IF k = 1 THEN 0 ELSE log[k - 1]) })

\* C12 as stated: after any sequence of work-received events, epoch_changes
\* equals the number of distinct epoch values observed since start.
C12_ChangesEqualDistinctEpochs ==
    m_epochChanges = Cardinality(EpochsObserved)

\* C12 amended: epoch_changes equals the number of work packages whose
\* epoch differs from the epoch of the package before it (for the first
\* package: from 0), so an epoch that comes back is counted again.
C12_ChangesCountTransitions ==
    /\ m_epochChanges = EpochChangesIn(workLog)
    /\ m_lastEpoch = (IF workLog = << >> THEN 0 ELSE workLog[Len(workLog)])

\* an epoch came back: three changes, two distinct epochs
C12_Witness ==
    /\ workLog = << 1, 0, 1 >>
    /\ m_epochChanges = 3
    /\ Cardinality(EpochsObserved) = 2

\* C13: connection_switches and epoch_changes never decrease, whatever the
\* operation, callback, tick or timer expiry that takes the step.
C13_CountersNeverDecrease ==
    [][/\ m_connectionSwitches' >= m_connectionSwitches
       /\ m_epochChanges' >= m_epochChanges]_vars

\* both counters have moved, the switches through a failover expiry too
C13_Witness ==
    /\ m_connectionSwitches >= 2
    /\ m_epochChanges >= 2
    /\ returning # ""

\* C14: the loop calls connect() only while the client is neither connecting
\* nor disconnecting.
C14_NoConnectWhilePending ==
    [][connectCall => ~isPendingState]_vars

\* C15: after set_active(i) with a valid i other than active_index and the
\* disconnect the client reports next, the next connection the loop
\* initiates binds the client to endpoint i.
C15_SetActiveObserved ==
    [][(connectCall /\ switching.reported) => BoundHost = switching.host]_vars

\* the registry is not empty and its last endpoint is the sentinel
EndsInExit ==
    m_connections # << >> /\ m_connections[Len(m_connections)].host = "exit"
\* the tick's locked section leaves the sentinel as the active endpoint
exitSelected ==
    /\ loopPc = "select" /\ loopPc' \in {"unlock", "unlock_exit"}
    /\ InRange(m_connections', m_activeConnectionIdx')
    /\ At(m_connections', m_activeConnectionIdx').host = "exit"

\* C16: a tick that ends up with the "exit" sentinel as active endpoint
\* initiates no connection, stops the farm, clears running and the loop
\* exits; from a start with a registry that ends in the sentinel, the loop
\* terminates unless the client reaches connected.
C16_ExitSentinelTerminates ==
    /\ [][/\ exitSelected =>
                /\ loopPc' = "unlock_exit"
                /\ UNCHANGED clientState
                /\ clientConn' # m_activeConnectionIdx' + 1
          /\ (loopPc = "unlock_exit" /\ loopPc' # "unlock_exit") =>
                loopPc' = "exit" /\ UNCHANGED clientState
          /\ (loopPc = "exit" /\ loopPc' # "exit") =>
                ~mining' /\ loopPc' = "exit2"
          /\ (loopPc = "exit2" /\ loopPc' # "exit2") =>
                ~m_running' /\ loopPc' = "while"
          /\ (loopPc = "while" /\ ~m_running /\ loopPc' # "while") =>
                loopPc' = "done"]_vars
    /\ (m_running /\ EndsInExit /\ m_connectionSwitches = 0)
          ~> (loopPc = "done" \/ isConnected)

\* the loop has rotated onto the sentinel and is gone
C16_Witness ==
    /\ loopPc = "done" /\ ~m_running /\ ~mining
    /\ EndsInExit /\ Len(m_connections) > 1
    /\ m_activeConnectionIdx = Len(m_connections) - 1
    /\ m_connectionSwitches >= 1

\* thread t is at a call of the client's connect() or disconnect()
InClientCall(t) ==
    \/ t = "loop" /\ loopPc = "connect"
    \/ t = "api" /\ apiPc \in {"clear2", "setactive2", "stop2"}
    \/ t = "timer" /\ timerPc = "disconnect"

\* thread t was inside its section under the mutex when the uncaught
\* exception of .at() ended the process
TerminatedUnderLock(t) ==
    \/ t = "loop" /\ loopPc = "aborted"
    \/ t = "conn" /\ connPc = "aborted"

\* thread t is between taking the mutex and releasing it
InLockedSection(t) ==
    \/ t = "loop" /\ loopPc \in {"unlock", "unlock_exit"}
    \/ t = "api" /\ apiPc \in {"clear_unlock", "setactive_unlock"}
    \/ t = "timer" /\ timerPc = "unlock"
    \/ t = "conn" /\ connPc = "unlock"

\* C17: the registry lock is never held across connect() or disconnect():
\* a thread that is about to call one of them has released the mutex, so
\* the mutex is free for an event handler or another thread to take.  A
\* thread between taking the mutex and its unlock holds it, and a thread
\* holds it nowhere else, except that a process ended by the uncaught
\* exception of .at() may die with the mutex owned by the thread that threw.
C17_LockFreeAtClientCalls ==
    /\ \A t \in {"loop", "api", "timer"} :
          InClientCall(t) => mutexOwner # t
    /\ \A t \in {"loop", "api", "timer", "conn"} :
          /\ InLockedSection(t) => mutexOwner = t
          /\ mutexOwner = t => InLockedSection(t) \/ TerminatedUnderLock(t)

\* the loop is at connect() and a control call at disconnect(), each after
\* its unlock, while the timer handler holds the mutex they released
C17_Witness ==
    /\ InClientCall("loop") /\ InClientCall("api")
    /\ mutexOwner = "timer" /\ timerPc = "unlock"

\* C18: at every connected event the endpoint read through the active index
\* (its host is logged, its index decides on the failover timer) is the
\* endpoint the loop's latest setConnection bound the client to (checked
\* while the client's pointer still refers to an element of the registry).
C18_ConnectedReadsBoundEndpoint ==
    [][(/\ connectedEvent /\ InRange(m_connections, m_activeConnectionIdx)
        /\ clientConn # Dangling) =>
          At(m_connections, m_activeConnectionIdx).host = BoundHost]_vars

\* the k-th tick in a row, since start, that found the client disconnected
\* is about to call connect(), in a registry of one endpoint whose active
\* index has been 0 all along
AttemptInARow(k) ==
    /\ loopPc = "connect"
    /\ discTicks = k /\ k < MaxTicks
    /\ Len(m_connections) = 1

\* the locked section of a tick binds the client and goes on to connect()
bindStep == loopPc = "select" /\ loopPc' = "unlock"

\* C19 as stated: connection_attempt never exceeds max_attempts, and the
\* loop makes at most max_attempts connect attempts in a row against one
\* endpoint while the active index is not changed and the endpoint is not
\* erased.
C19_AtMostMaxAttemptsInARow ==
    /\ m_connectionAttempt <= m_maxConnectionAttempts
    /\ \A k \in 1..MaxTicks : AttemptInARow(k) => k <= m_maxConnectionAttempts

\* C19 amended: connection_attempt never exceeds max_attempts; every bind
\* either adds one to the count or, after a rotation or an erasure in the
\* same tick (one switch counted), starts again at 1, so at most
\* max_attempts attempts are made between two such resets. A rotation in a
\* registry of one endpoint selects the same endpoint again.
C19_AttemptsCountedUpToMax ==
    /\ m_connectionAttempt <= m_maxConnectionAttempts
    /\ [][/\ m_connectionAttempt' <= m_maxConnectionAttempts
          /\ bindStep =>
                /\ m_connectionAttempt' >= 1
                /\ \/ m_connectionAttempt' = m_connectionAttempt + 1
                   \/ /\ m_connectionAttempt' = 1
                      /\ m_connectionSwitches' = m_connectionSwitches + 1]_vars

\* the only endpoint is attempted again right after max_attempts attempts
C19_Witness ==
    /\ AttemptInARow(m_maxConnectionAttempts + 1)
    /\ m_activeConnectionIdx = 0
    /\ m_connectionAttempt = 1
    /\ m_connectionSwitches = 1
    /\ clientConn = 1

\* the registry is complete (nothing can be added) and has no sentinel
FixedPools ==
    /\ Len(m_connections) = MaxLen
    /\ \A k \in 1..Len(m_connections) : m_connections[k].host # "exit"
\* switches the loop needs at most before it attempts endpoint j
SwitchesTo(j) ==
    IF j = m_activeConnectionIdx THEN Len(m_connections)
    ELSE (j - m_activeConnectionIdx) % Len(m_connections)

\* C20: with the manager running, a fixed registry without sentinel and
\* without unrecoverable endpoint, and a client that never connects but
\* always leaves the pending state, the loop attempts the endpoints in
\* insertion order, none skipped, max_attempts times each, and gets to
\* every endpoint again (as far as the explored number of switches goes).
C20_RoundRobin ==
    /\ [][(bindStep /\ FixedPools) =>
            \/ /\ m_activeConnectionIdx' = m_activeConnectionIdx
               /\ m_connectionAttempt < m_maxConnectionAttempts
            \/ /\ m_activeConnectionIdx' =
                      (m_activeConnectionIdx + 1) % Len(m_connections)
               /\ m_connectionAttempt = m_maxConnectionAttempts
               /\ m_connectionAttempt' = 1]_vars
    /\ \A j \in 0..(MaxLen - 1) :
          (/\ m_running /\ FixedPools
           /\ m_connectionSwitches + SwitchesTo(j) <= MaxSwitches)
             ~> (loopPc = "connect" /\ m_activeConnectionIdx = j
                 /\ clientConn = j + 1)

\* a full round: the loop is back at the first endpoint
C20_Witness ==
    /\ FixedPools /\ m_running
    /\ loopPc = "connect"
    /\ m_activeConnectionIdx = 0 /\ clientConn = 1
    /\ m_connectionSwitches = Len(m_connections)

====
